---- MODULE Spec2Model ----
(***************************************************************************)
(* Model of bubuku's broker lifecycle controller (bubuku/broker.py,        *)
(* BrokerManager) and of the broker identity resolvers                     *)
(* (bubuku/id_generator.py).                                               *)
(*                                                                         *)
(* The controller is driven by one thread: at most one call of             *)
(* start_kafka_process / stop_kafka_process / has_leadership /             *)
(* is_running_and_registered is in flight.  The two polling loops are      *)
(* split in their steps (poll, sleep) so that the coordination tree, the   *)
(* broker process and the leader election may change while the controller  *)
(* waits; everything else a call does is one atomic action.                *)
(*                                                                         *)
(* Modelling assumptions: the coordination reads of the leadership scan    *)
(* (get_children, get of a partition state) succeed; only the registration *)
(* lookup of is_registered may fail with an error other than NoNodeError.  *)
(* The leadership scan is atomic: partition states do not change while one *)
(* scan runs.                                                              *)
(*                                                                         *)
(* Specifications: Spec is the lifecycle of one controller in a cluster of *)
(* two brokers and one partition; FairSpec adds that the driving thread    *)
(* keeps running its wait loops; SpecCheck applies the leadership safety   *)
(* check and has_leadership to every two-partition state of a cluster of   *)
(* three brokers.                                                          *)
(***************************************************************************)
EXTENDS Integers, Sequences, FiniteSets, TLC

VARIABLES
    policy,        \* which BrokerIdGenerator is used: "ip" or "auto"
    broker_id,     \* id_manager.broker_id (BrokerIDByIp: the derived id; BrokerIdAutoAssign: None)
    meta_id,       \* broker.id=<digits> of <log.dirs>/meta.properties, None when file or line is missing
    process,       \* BrokerManager.process: NoProcess or the pid of the Popen handle
    wait_timeout,  \* BrokerManager.wait_timeout
    props,         \* KafkaProperties held in memory: key -> value or None
    dumped,        \* the settings file as last written by KafkaProperties.dump()
    live,          \* pids of the processes spawned by this controller that have not exited
    zk_ids,        \* children of /brokers/ids (strings)
    zk_topics,     \* /brokers/topics in listing order: <<[name, partitions: <<[name, state]>>]>>
    pc,            \* position of the driving thread
    elapsed,       \* time() - start inside wait_for_broker_id_presence
    call           \* the call in flight or just returned: what it was, what it did, what it gave back

vars == <<policy, broker_id, meta_id, process, wait_timeout, props, dumped, live,
          zk_ids, zk_topics, pc, elapsed, call>>

-----------------------------------------------------------------------------
(* Bounds of the model *)

\* at most this many spawned processes are alive at once (a failed terminate leaks one)
MaxLive == 2
\* at most this many presence waits time out in one behaviour
MaxTimeouts == 2
\* seconds of wall clock between two registration polls of the presence wait
\* (sleep(1) plus lookup latency and scheduling delay, observed coarsely)
PollGap == 200
\* the timeouts wait_for_broker_id_presence is called with on its own: 0..MaxWaitSeconds
MaxWaitSeconds == 3
\* whole seconds that pass between two polls there: sleep(1) takes 1..MaxSleepSeconds
MaxSleepSeconds == 2
\* the identity a broker process assigns to itself when broker.id is absent
SelfAssignedId == 1001

(* Program constants *)

\* BrokerManager.__init__: self.wait_timeout = 5 * 60
InitialWaitTimeout == 300
\* start_kafka_process: self.wait_timeout += 60
WaitTimeoutIncrement == 60
\* self.process = None
NoProcess == 0

None == "None"

Keys == {"broker.id", "zookeeper.connect", "unclean.leader.election.enable",
         "reserved.broker.max.id"}

\* the addresses start_kafka_process is called with
Addresses == {"zk-a:2181", "zk-b:2181"}

\* the private address of this host and of one peer broker
OwnIp == <<10, 0, 0, 1>>
PeerIp == <<192, 168, 0, 7>>

-----------------------------------------------------------------------------
(* bubuku/id_generator.py *)

\* functools.reduce(lambda o, v: o * 256 + v, address, 0)
RECURSIVE FoldOctets(_, _)
FoldOctets(address, o) ==
    IF address = <<>> THEN o
    ELSE FoldOctets(Tail(address), o * 256 + Head(address))

\* a remapping that would give 172.16/12 the first octet of 10/8
DiscriminatorShared(ip) ==
    IF ip[1] = 10 THEN 1
    ELSE IF ip[1] = 192 /\ ip[2] = 168 THEN 2
    ELSE IF ip[1] = 172 /\ (ip[2] \div 16) % 16 = 1 THEN 1
    ELSE 0

\* the first octet after the remapping of _create_rfc1918_address_hash, 0 when
\* the address is in none of the three private blocks
Discriminator(ip) ==
    IF ip[1] = 10 THEN 1
    ELSE IF ip[1] = 192 /\ ip[2] = 168 THEN 2
    ELSE IF ip[1] = 172 /\ (ip[2] \div 16) % 16 = 1 THEN 3
    ELSE 0

\* the number whose decimal text is the derived identity
AddressHashNumber(ip) == FoldOctets(<<Discriminator(ip), ip[2], ip[3], ip[4]>>, 0)

\* a hash that would give a pair without identity for an unsupported address
CreateRfc1918AddressHashPair(ip) ==
    IF Discriminator(ip) = 0 THEN <<None, ToString(256 * 256 * 256 * 3 + 1)>>
    ELSE <<ToString(AddressHashNumber(ip)), ToString(256 * 256 * 256 * 3 + 1)>>

\* _create_rfc1918_address_hash: <<identity, reserved max id>> or None
CreateRfc1918AddressHash(ip) ==
    IF Discriminator(ip) = 0 THEN None
    ELSE <<ToString(AddressHashNumber(ip)), ToString(256 * 256 * 256 * 3 + 1)>>

\* a resolver that would report the identity discovered in meta.properties
GetBrokerIdDiscovered == IF policy = "ip" THEN broker_id ELSE meta_id

\* BrokerIdGenerator.get_broker_id of the two variants
GetBrokerId == IF policy = "ip" THEN broker_id ELSE None

\* BrokerIdGenerator._is_registered_in_zk without lookup failure:
\* NoNodeError gives False, an existing node gives True
IsRegisteredInZk(id) == id \in zk_ids

\* does is_registered look the registration record up at all?
\* BrokerIdAutoAssign returns False before any lookup when meta.properties
\* is missing or has no broker.id line
LooksUp == policy = "ip" \/ meta_id # None

\* is_registered when the lookup (if any) succeeds
IsRegistered ==
    IF policy = "ip" THEN IsRegisteredInZk(broker_id)
    ELSE IF meta_id = None THEN FALSE
    ELSE IsRegisteredInZk(meta_id)

\* the identity whose registration record is_registered looks up
LookupId == IF policy = "ip" THEN broker_id ELSE meta_id

\* the outcomes of self.zk.get('/brokers/ids/<id>'): the record's stat,
\* NoNodeError when there is no record, or another error ("ZkError")
ZkGetOutcomes(id) == {IF id \in zk_ids THEN "stat" ELSE "NoNodeError", "ZkError"}

\* a lookup that would not catch NoNodeError
RegisteredFromGetUncaught(g) == IF g = "stat" THEN "True" ELSE g

\* _is_registered_in_zk on the outcome of the get: `stat is not None` gives
\* True, `except NoNodeError` gives False, any other error goes up
RegisteredFromGet(g) ==
    IF g = "stat" THEN "True" ELSE IF g = "NoNodeError" THEN "False" ELSE g

\* the outcomes of one is_registered() call: "True", "False", or "ZkError"
\* when the lookup fails with something else than NoNodeError
IsRegisteredOutcomes ==
    IF LooksUp THEN {RegisteredFromGet(g) : g \in ZkGetOutcomes(LookupId)}
    ELSE {"False"}

-----------------------------------------------------------------------------
(* bubuku/broker.py: the leadership safety check *)

\* an optional list of broker ids: active_broker_ids=None / dead_broker_ids=None,
\* or a list given by the caller
NoIds == [given |-> FALSE, ids |-> {}]
IdList(s) == [given |-> TRUE, ids |-> s]

\* truth value of an optional list in `if active_broker_ids and ...`
Truthy(l) == l.given /\ l.ids # {}

\* a comparison that would take a missing property for clean election
IsCleanElectionUnlessTrue == props["unclean.leader.election.enable"] # "true"

\* _is_clean_election
IsCleanElection == props["unclean.leader.election.enable"] = "false"

\* a loop body without the dead_broker_ids test
BlocksTransferActiveOnly(state, active, dead) ==
    LET leader == ToString(state.leader)
    IN  /\ Truthy(active)
        /\ leader \notin active.ids
        /\ \E x \in state.isr : ToString(x) \in active.ids

\* a loop body that would block on an inactive leader whatever the isr
BlocksTransferNoSkip(state, active, dead) ==
    LET leader == ToString(state.leader)
    IN  \/ /\ Truthy(active)
           /\ leader \notin active.ids
        \/ /\ Truthy(dead)
           /\ leader \in dead.ids

\* the body of the partition loop: TRUE when it returns False at this partition
BlocksTransfer(state, active, dead) ==
    LET leader == ToString(state.leader)
    IN  \/ /\ Truthy(active)
           /\ leader \notin active.ids
           /\ \E x \in state.isr : ToString(x) \in active.ids
        \/ /\ Truthy(dead)
           /\ leader \in dead.ids

\* for partition in get_children('/brokers/topics/{}/partitions'): ...
\* reads counts the partition state records read so far
RECURSIVE ScanPartitions(_, _, _, _)
ScanPartitions(partitions, active, dead, reads) ==
    IF partitions = <<>> THEN [verdict |-> TRUE, reads |-> reads]
    ELSE IF BlocksTransfer(Head(partitions).state, active, dead)
         THEN [verdict |-> FALSE, reads |-> reads + 1]
         ELSE ScanPartitions(Tail(partitions), active, dead, reads + 1)

\* for topic in get_children('/brokers/topics'): ...
RECURSIVE ScanTopics(_, _, _, _)
ScanTopics(topics, active, dead, reads) ==
    IF topics = <<>> THEN [verdict |-> TRUE, reads |-> reads]
    ELSE LET r == ScanPartitions(Head(topics).partitions, active, dead, reads)
         IN  IF ~r.verdict THEN r
             ELSE ScanTopics(Tail(topics), active, dead, r.reads)

\* _is_leadership_transferred over the topic tree as listed
IsLeadershipTransferredIn(topics, active, dead) ==
    IF IsCleanElection THEN ScanTopics(topics, active, dead, 0)
    ELSE [verdict |-> TRUE, reads |-> 0]

IsLeadershipTransferred(active, dead) ==
    IsLeadershipTransferredIn(zk_topics, active, dead)

-----------------------------------------------------------------------------
(* bubuku/broker.py: BrokerManager *)

\* polls and sleeps are flags: 1 once is_registered() was called / sleep(1) was run
NoCall == [op |-> "none", held |-> FALSE, path |-> "none", raised |-> None,
           ret |-> None, cfg_writes |-> 0, dumps |-> 0, spawns |-> 0,
           polls |-> 0, sleeps |-> 0, reads |-> 0,
           active |-> NoIds, dead |-> NoIds, ip |-> <<>>]

\* a test that would count the handle as held only while its process runs
HandleHeldWhileAlive == process \in live

\* `if not self.process` is false: a handle is held
HandleHeld == process # NoProcess

\* a start that would leave the broker.id of the settings file alone when the
\* resolver gives no identity
StartConfigKeepsBrokerId(zookeeper_address) ==
    LET id == GetBrokerId
    IN  [props EXCEPT !["broker.id"] = IF id # None THEN id ELSE @,
                      !["zookeeper.connect"] = zookeeper_address]

\* the properties after start has written broker.id and zookeeper.connect
StartConfig(zookeeper_address) ==
    LET id == GetBrokerId
    IN  [props EXCEPT !["broker.id"] = IF id # None THEN id ELSE None,
                      !["zookeeper.connect"] = zookeeper_address]

\* a call that would pass the registered ids as dead_broker_ids
StartCheckIdsAsDead == IsLeadershipTransferred(NoIds, IdList(zk_ids))

\* the verdict start asks for: active ids = children of /brokers/ids, no dead ids
StartCheck == IsLeadershipTransferred(IdList(zk_ids), NoIds)

\* subprocess.Popen gives a handle on a new process
NewPid == CHOOSE p \in 1..(MaxLive + 1) : p \notin live

\* start_kafka_process up to the presence wait
StartKafkaProcess(zookeeper_address) ==
    /\ pc = "idle"
    /\ IF HandleHeld
       THEN /\ call' = [NoCall EXCEPT !.op = "start", !.held = TRUE, !.path = "held"]
            /\ UNCHANGED <<process, wait_timeout, props, dumped, live, pc, elapsed>>
       ELSE IF ~StartCheck.verdict
       THEN /\ call' = [NoCall EXCEPT !.op = "start", !.path = "refused",
                                      !.raised = "LeaderElectionInProgress",
                                      !.reads = StartCheck.reads]
            /\ UNCHANGED <<process, wait_timeout, props, dumped, live, pc, elapsed>>
       ELSE \* the two bounds of the model: live processes and timed-out waits
            /\ Cardinality(live) < MaxLive
            /\ wait_timeout < InitialWaitTimeout + MaxTimeouts * WaitTimeoutIncrement
            /\ props' = StartConfig(zookeeper_address)
            /\ dumped' = props'
            /\ process' = NewPid
            /\ live' = live \cup {NewPid}
            /\ pc' = "start_wait"
            /\ elapsed' = 0
            /\ call' = [NoCall EXCEPT !.op = "start", !.path = "spawned",
                                      !.cfg_writes = 2, !.dumps = 1, !.spawns = 1,
                                      !.reads = StartCheck.reads]
            /\ UNCHANGED wait_timeout
    /\ UNCHANGED <<policy, broker_id, meta_id, zk_ids, zk_topics>>

\* a comparison that would give up once the timeout is reached
TimedOutAtLimit == elapsed >= wait_timeout

\* (time() - start) > timeout
TimedOut == elapsed > wait_timeout

\* an extension that would not accumulate
ExtendedTimeoutFixed == InitialWaitTimeout + WaitTimeoutIncrement

\* the timeout start uses for its next attempt after a presence wait timed out
ExtendedTimeout == wait_timeout + WaitTimeoutIncrement

\* one iteration of `while not self.is_registered()` in wait_for_broker_id_presence,
\* and what start does with the result of the wait
PresencePoll ==
    /\ pc = "start_wait"
    /\ \E o \in IsRegisteredOutcomes :
        \/ /\ o = "True"
           /\ pc' = "idle"
           /\ elapsed' = 0
           /\ call' = [call EXCEPT !.path = "registered", !.polls = 1]
           /\ UNCHANGED wait_timeout
        \/ /\ o = "ZkError"
           /\ pc' = "idle"
           /\ elapsed' = 0
           /\ call' = [call EXCEPT !.path = "lookup_failed", !.raised = "ZkError",
                                   !.polls = 1]
           /\ UNCHANGED wait_timeout
        \/ /\ o = "False"
           /\ TimedOut
           /\ pc' = "idle"
           /\ elapsed' = 0
           /\ wait_timeout' = ExtendedTimeout
           /\ call' = [call EXCEPT !.path = "timeout", !.polls = 1]
        \/ /\ o = "False"
           /\ ~TimedOut
           /\ pc' = "start_sleep"
           /\ call' = [call EXCEPT !.polls = 1]
           /\ UNCHANGED <<elapsed, wait_timeout>>
    /\ UNCHANGED <<policy, broker_id, meta_id, process, props, dumped, live,
                   zk_ids, zk_topics>>

\* sleep(1) of wait_for_broker_id_presence
PresenceSleep ==
    /\ pc = "start_sleep"
    /\ pc' = "start_wait"
    /\ elapsed' = elapsed + PollGap
    /\ call' = [call EXCEPT !.sleeps = 1]
    /\ UNCHANGED <<policy, broker_id, meta_id, process, wait_timeout, props, dumped,
                   live, zk_ids, zk_topics>>

\* a cleanup that would clear the handle only when termination succeeded
HandleKeptOnFailure(outcome) == IF outcome = "failed" THEN process ELSE NoProcess

\* the handle after _terminate_process: `finally: self.process = None`,
\* whether terminate() and wait() returned ("exited") or one of them raised ("failed")
HandleAfterTerminate(outcome) == NoProcess

\* stop_kafka_process: _terminate_process, then into _wait_for_zk_absence
StopKafkaProcess ==
    /\ pc = "idle"
    /\ IF process # NoProcess
       THEN \E outcome \in {"exited", "failed"} :
            \* terminate() and wait() return, or one of them raises and the
            \* process is left as it is
            /\ live' = IF outcome = "exited" THEN live \ {process} ELSE live
            /\ process' = HandleAfterTerminate(outcome)
            /\ call' = [NoCall EXCEPT !.op = "stop", !.held = TRUE,
                                      !.path = IF outcome = "exited" THEN "terminated"
                                               ELSE "terminate_failed"]
       ELSE /\ call' = [NoCall EXCEPT !.op = "stop", !.path = "no_handle"]
            /\ UNCHANGED <<process, live>>
    /\ pc' = "stop_wait"
    /\ UNCHANGED <<policy, broker_id, meta_id, wait_timeout, props, dumped,
                   zk_ids, zk_topics, elapsed>>

\* an inverted loop condition: `while not self.is_registered()`
AbsenceLoopInverted(o) == o = "False"

\* the loop condition of wait_for_broker_id_absence: `while self.is_registered()`
AbsenceLoopGoesOn(o) == o = "True"

\* what _wait_for_zk_absence raises to stop_kafka_process when the wait raised:
\* `except Exception` logs and swallows
AbsenceWaitRaises(o) == None

\* one iteration of `while self.is_registered()` in wait_for_broker_id_absence,
\* inside the try/except of _wait_for_zk_absence
AbsencePoll ==
    /\ pc = "stop_wait"
    /\ \E o \in IsRegisteredOutcomes :
        \/ /\ o = "ZkError"
           /\ pc' = "idle"
           /\ call' = [call EXCEPT !.polls = 1, !.path = @ \o "+absence_failed",
                                   !.raised = AbsenceWaitRaises(o)]
        \/ /\ o # "ZkError"
           /\ AbsenceLoopGoesOn(o)
           /\ pc' = "stop_sleep"
           /\ call' = [call EXCEPT !.polls = 1]
        \/ /\ o # "ZkError"
           /\ ~AbsenceLoopGoesOn(o)
           /\ pc' = "idle"
           /\ call' = [call EXCEPT !.polls = 1]
    /\ UNCHANGED <<policy, broker_id, meta_id, process, wait_timeout, props, dumped,
                   live, zk_ids, zk_topics, elapsed>>

\* sleep(1) of wait_for_broker_id_absence
AbsenceSleep ==
    /\ pc = "stop_sleep"
    /\ pc' = "stop_wait"
    /\ call' = [call EXCEPT !.sleeps = 1]
    /\ UNCHANGED <<policy, broker_id, meta_id, process, wait_timeout, props, dumped,
                   live, zk_ids, zk_topics, elapsed>>

\* `if not broker_id` in has_leadership
NoBrokerId(id) == id = None \/ id = ""

\* has_leadership
HasLeadership ==
    /\ pc = "idle"
    /\ LET id == GetBrokerId
           check == IsLeadershipTransferred(NoIds, IdList({id}))
       IN  call' = IF NoBrokerId(id)
                   THEN [NoCall EXCEPT !.op = "has_leadership", !.held = HandleHeld,
                                       !.ret = "False"]
                   ELSE [NoCall EXCEPT !.op = "has_leadership", !.held = HandleHeld,
                                       !.ret = IF check.verdict THEN "False" ELSE "True",
                                       !.reads = check.reads]
    /\ UNCHANGED <<policy, broker_id, meta_id, process, wait_timeout, props, dumped,
                   live, zk_ids, zk_topics, pc, elapsed>>

\* is_running_and_registered
IsRunningAndRegistered ==
    /\ pc = "idle"
    /\ IF ~HandleHeld
       THEN call' = [NoCall EXCEPT !.op = "is_running", !.ret = "False"]
       ELSE \E o \in IsRegisteredOutcomes :
            call' = IF o = "ZkError"
                    THEN [NoCall EXCEPT !.op = "is_running", !.held = TRUE,
                                        !.raised = "ZkError", !.polls = 1]
                    ELSE [NoCall EXCEPT !.op = "is_running", !.held = TRUE,
                                        !.ret = o, !.polls = 1]
    /\ UNCHANGED <<policy, broker_id, meta_id, process, wait_timeout, props, dumped,
                   live, zk_ids, zk_topics, pc, elapsed>>

-----------------------------------------------------------------------------
(* The environment: the cluster, the coordination tree, the broker process *)

\* the identity the broker of this host takes, and the brokers of the cluster
OwnNumber == IF policy = "ip" THEN AddressHashNumber(OwnIp) ELSE SelfAssignedId
ClusterNumbers == {OwnNumber, AddressHashNumber(PeerIp)}
ClusterIds == {ToString(n) : n \in ClusterNumbers}

\* values of a partition state record {"leader": .., "isr": [..]}
\* as the cluster writes them: the leader is in sync with itself
PartitionStates ==
    {st \in [leader : ClusterNumbers, isr : SUBSET ClusterNumbers] : st.leader \in st.isr}

\* the topic tree of the lifecycle model: one topic of one partition
TopicTree(s) == << [name |-> "T1", partitions |-> << [name |-> "0", state |-> s] >>] >>

\* an environment step ends the observation of a call that has returned
Observed == IF pc = "idle" THEN NoCall ELSE call

\* a broker registers /brokers/ids/<id>
BrokerJoins(id) ==
    /\ id \notin zk_ids
    /\ zk_ids' = zk_ids \cup {id}
    /\ call' = Observed
    /\ UNCHANGED <<policy, broker_id, meta_id, process, wait_timeout, props, dumped,
                   live, zk_topics, pc, elapsed>>

\* the session of a broker ends and its ephemeral node goes
BrokerLeaves(id) ==
    /\ id \in zk_ids
    /\ zk_ids' = zk_ids \ {id}
    /\ call' = Observed
    /\ UNCHANGED <<policy, broker_id, meta_id, process, wait_timeout, props, dumped,
                   live, zk_topics, pc, elapsed>>

\* the broker process started without broker.id assigns itself an identity
\* and writes it to meta.properties
MetaWritten ==
    /\ policy = "auto"
    /\ live # {}
    /\ meta_id = None
    /\ meta_id' = ToString(SelfAssignedId)
    /\ call' = Observed
    /\ UNCHANGED <<policy, broker_id, process, wait_timeout, props, dumped, live,
                   zk_ids, zk_topics, pc, elapsed>>

\* the cluster's leader election rewrites one partition state record
Elect(t, p, s) ==
    /\ zk_topics[t].partitions[p].state # s
    /\ zk_topics' = [zk_topics EXCEPT ![t].partitions[p].state = s]
    /\ call' = Observed
    /\ UNCHANGED <<policy, broker_id, meta_id, process, wait_timeout, props, dumped,
                   live, zk_ids, pc, elapsed>>

\* a spawned process exits by itself
ProcessExits(pid) ==
    /\ pid \in live
    /\ live' = live \ {pid}
    /\ call' = Observed
    /\ UNCHANGED <<policy, broker_id, meta_id, process, wait_timeout, props, dumped,
                   zk_ids, zk_topics, pc, elapsed>>

-----------------------------------------------------------------------------
(* The lifecycle specification *)

\* BrokerIDByIp.__init__ / BrokerIdAutoAssign.__init__ / BrokerManager.__init__
Init ==
    /\ policy \in {"ip", "auto"}
    /\ broker_id = IF policy = "ip" THEN CreateRfc1918AddressHash(OwnIp)[1] ELSE None
    /\ meta_id \in IF policy = "ip" THEN {None} ELSE {None, ToString(SelfAssignedId)}
    /\ process = NoProcess
    /\ wait_timeout = InitialWaitTimeout
    /\ \E unclean \in {"false", "true", None}, template_id \in {"0"} :
        props = [k \in Keys |->
                    CASE k = "unclean.leader.election.enable" -> unclean
                      [] k = "broker.id" -> template_id
                      [] k = "zookeeper.connect" -> None
                      [] k = "reserved.broker.max.id" ->
                            IF policy = "ip" THEN CreateRfc1918AddressHash(OwnIp)[2]
                            ELSE None]
    /\ dumped = [k \in Keys |-> None]
    /\ live = {}
    /\ zk_ids \in SUBSET ClusterIds
    /\ \E s \in PartitionStates : zk_topics = TopicTree(s)
    /\ pc = "idle"
    /\ elapsed = 0
    /\ call = NoCall

Controller ==
    \/ \E a \in Addresses : StartKafkaProcess(a)
    \/ PresencePoll
    \/ PresenceSleep
    \/ StopKafkaProcess
    \/ AbsencePoll
    \/ AbsenceSleep
    \/ HasLeadership
    \/ IsRunningAndRegistered

Environment ==
    \/ \E id \in ClusterIds : BrokerJoins(id)
    \/ \E id \in ClusterIds : BrokerLeaves(id)
    \/ MetaWritten
    \/ \E t \in DOMAIN zk_topics : \E p \in DOMAIN zk_topics[t].partitions :
          \E s \in PartitionStates : Elect(t, p, s)
    \/ \E pid \in live : ProcessExits(pid)

Next == Controller \/ Environment

Spec == Init /\ [][Next]_vars

-----------------------------------------------------------------------------
(* The leadership safety check on its own: _is_leadership_transferred and      *)
(* has_leadership applied to every partition state of a small cluster, for     *)
(* every pair of arguments                                                     *)

\* a third broker of the cluster, which assigned its identity itself
CheckNumbers == {AddressHashNumber(OwnIp), AddressHashNumber(PeerIp), SelfAssignedId}
CheckIds == {ToString(n) : n \in CheckNumbers}

\* any record the state node may hold: the isr may be empty or lack the leader
CheckStates == [leader : CheckNumbers, isr : SUBSET CheckNumbers]

\* one topic of two partitions, or two topics of one partition
CheckTrees ==
    {<< [name |-> "T1", partitions |-> << [name |-> "0", state |-> s1],
                                          [name |-> "1", state |-> s2] >>] >> :
        s1 \in CheckStates, s2 \in CheckStates}
    \cup
    {<< [name |-> "T1", partitions |-> << [name |-> "0", state |-> s1] >>],
        [name |-> "T2", partitions |-> << [name |-> "0", state |-> s2] >>] >> :
        s1 \in CheckStates, s2 \in CheckStates}

\* the values of active_broker_ids / dead_broker_ids: None, [] or a list of ids
CheckArgs == {NoIds} \cup {IdList(ids) : ids \in SUBSET CheckIds}

\* the arguments of a call of _is_leadership_transferred that is about to be made
Pending(active, dead) == [NoCall EXCEPT !.op = "pending", !.active = active, !.dead = dead]

\* the call _is_leadership_transferred(active_broker_ids, dead_broker_ids)
CheckLeadership ==
    /\ pc = "idle"
    /\ call.op = "pending"
    /\ LET check == IsLeadershipTransferred(call.active, call.dead)
       IN  call' = [call EXCEPT !.op = "check",
                                !.ret = IF check.verdict THEN "True" ELSE "False",
                                !.reads = check.reads]
    /\ UNCHANGED <<policy, broker_id, meta_id, process, wait_timeout, props, dumped,
                   live, zk_ids, zk_topics, pc, elapsed>>

InitCheck ==
    /\ policy = "ip"
    /\ broker_id = CreateRfc1918AddressHash(OwnIp)[1]
    /\ meta_id = None
    /\ process = NoProcess
    /\ wait_timeout = InitialWaitTimeout
    /\ \E unclean \in {"false", "true", None} :
        props = [k \in Keys |->
                    CASE k = "unclean.leader.election.enable" -> unclean
                      [] k = "broker.id" -> "0"
                      [] k = "zookeeper.connect" -> None
                      [] k = "reserved.broker.max.id" -> CreateRfc1918AddressHash(OwnIp)[2]]
    /\ dumped = [k \in Keys |-> None]
    /\ live = {}
    /\ zk_ids = {}
    /\ zk_topics \in CheckTrees
    /\ pc = "idle"
    /\ elapsed = 0
    /\ \E active \in CheckArgs, dead \in CheckArgs : call = Pending(active, dead)

NextCheck ==
    \/ CheckLeadership
    \/ HasLeadership

SpecCheck == InitCheck /\ [][NextCheck]_vars

\* the driving thread runs: a wait loop that has been entered takes its next step
FairSpec ==
    /\ Init
    /\ [][Next]_vars
    /\ WF_vars(PresencePoll \/ PresenceSleep)
    /\ WF_vars(AbsencePoll \/ AbsenceSleep)

-----------------------------------------------------------------------------
(* The address-derived resolver on its own: BrokerIDByIp.__init__ applied to   *)
(* addresses inside, at the edges of and outside the three private blocks      *)

\* the octets the addresses are built from: the first octets of the three
\* blocks and their neighbours, the edges of 172.16/12 and of 192.168/16
FirstOctets == {9, 10, 11, 172, 192}
SecondOctets == {0, 15, 16, 31, 32, 168, 255}
LowOctets == {0, 1, 255}

\* [int(v) for v in ip.split('.')] of the addresses the resolver is given
IpAddresses ==
    {<<o1, o2, o3, o4>> : o1 \in FirstOctets, o2 \in SecondOctets,
                          o3 \in LowOctets, o4 \in LowOctets}

\* the construction BrokerIDByIp(zk, ip, kafka_props) that is about to be made
PendingResolver(ip) == [NoCall EXCEPT !.op = "pending_resolver", !.ip = ip]

\* BrokerIDByIp.__init__: `self.broker_id, max_id = _create_rfc1918_address_hash(ip)`
\* raises TypeError when the hash is None (None cannot be unpacked); otherwise
\* reserved.broker.max.id is set, and then a missing identity raises
\* NotImplementedError
BrokerIDByIpInit ==
    /\ pc = "idle"
    /\ call.op = "pending_resolver"
    /\ LET hash == CreateRfc1918AddressHash(call.ip)
       IN  IF hash = None
           THEN /\ call' = [call EXCEPT !.op = "resolver", !.raised = "TypeError"]
                /\ UNCHANGED <<broker_id, props>>
           ELSE /\ broker_id' = hash[1]
                /\ props' = [props EXCEPT !["reserved.broker.max.id"] = hash[2]]
                /\ call' = [call EXCEPT !.op = "resolver", !.cfg_writes = 1,
                                        !.raised = IF hash[1] = None
                                                   THEN "NotImplementedError"
                                                   ELSE None]
    /\ UNCHANGED <<policy, meta_id, process, wait_timeout, dumped, live,
                   zk_ids, zk_topics, pc, elapsed>>

\* the resolver is about to be constructed on a configuration as loaded
InitIp ==
    /\ policy = "ip"
    /\ broker_id = None
    /\ meta_id = None
    /\ process = NoProcess
    /\ wait_timeout = InitialWaitTimeout
    /\ props = [k \in Keys |->
                    CASE k = "unclean.leader.election.enable" -> "false"
                      [] k = "broker.id" -> "0"
                      [] k = "zookeeper.connect" -> None
                      [] k = "reserved.broker.max.id" -> None]
    /\ dumped = [k \in Keys |-> None]
    /\ live = {}
    /\ zk_ids = {}
    /\ zk_topics = <<>>
    /\ pc = "idle"
    /\ elapsed = 0
    /\ \E ip \in IpAddresses : call = PendingResolver(ip)

NextIp == BrokerIDByIpInit

SpecIp == InitIp /\ [][NextIp]_vars

-----------------------------------------------------------------------------
(* The presence wait on its own: wait_for_broker_id_presence(timeout) for      *)
(* timeouts of a few seconds, with the clock in whole seconds, while brokers   *)
(* register and unregister                                                     *)

\* sleep(1) of wait_for_broker_id_presence with the seconds and the sleeps counted:
\* the sleep takes at least one second
PresenceSleepSeconds ==
    /\ pc = "start_sleep"
    /\ pc' = "start_wait"
    /\ \E d \in 1..MaxSleepSeconds : elapsed' = elapsed + d
    /\ call' = [call EXCEPT !.sleeps = @ + 1]
    /\ UNCHANGED <<policy, broker_id, meta_id, process, wait_timeout, props, dumped,
                   live, zk_ids, zk_topics>>

\* start = time() has just run in wait_for_broker_id_presence(timeout), called
\* by a start that spawned process 1
InitWait ==
    /\ policy \in {"ip", "auto"}
    /\ broker_id = IF policy = "ip" THEN CreateRfc1918AddressHash(OwnIp)[1] ELSE None
    /\ meta_id \in IF policy = "ip" THEN {None} ELSE {None, ToString(SelfAssignedId)}
    /\ process = 1
    /\ wait_timeout \in 0..MaxWaitSeconds
    /\ props = [k \in Keys |->
                    CASE k = "unclean.leader.election.enable" -> "false"
                      [] k = "broker.id" -> broker_id
                      [] k = "zookeeper.connect" -> "zk-a:2181"
                      [] k = "reserved.broker.max.id" ->
                            IF policy = "ip" THEN CreateRfc1918AddressHash(OwnIp)[2]
                            ELSE None]
    /\ dumped = props
    /\ live = {1}
    /\ zk_ids \in SUBSET ClusterIds
    /\ zk_topics = <<>>
    /\ pc = "start_wait"
    /\ elapsed = 0
    /\ call = [NoCall EXCEPT !.op = "start", !.path = "spawned", !.cfg_writes = 2,
                             !.dumps = 1, !.spawns = 1]

NextWait ==
    \/ PresencePoll
    \/ PresenceSleepSeconds
    \/ \E id \in ClusterIds : BrokerJoins(id)
    \/ \E id \in ClusterIds : BrokerLeaves(id)

SpecWait == InitWait /\ [][NextWait]_vars

-----------------------------------------------------------------------------
(* Claims about start_kafka_process and stop_kafka_process *)

StartCall == \E a \in Addresses : StartKafkaProcess(a)

\* C1: a call of start made while a process handle is held spawns nothing,
\* writes no configuration property, does not persist the configuration,
\* leaves wait_timeout alone and does not raise.
C1_StartWhileHeldIsNoOp ==
    [][(process # NoProcess /\ StartCall) =>
            /\ UNCHANGED <<process, live, props, dumped, wait_timeout, pc>>
            /\ call'.spawns = 0 /\ call'.cfg_writes = 0 /\ call'.dumps = 0
            /\ call'.raised = None]_vars

\* a start that found the handle held, after an earlier start had timed out
C1_Witness ==
    /\ call.op = "start" /\ call.path = "held" /\ pc = "idle"
    /\ process # NoProcess
    /\ wait_timeout > InitialWaitTimeout

\* C2: a start with no handle for which the safety check (active = children of
\* /brokers/ids, no dead ids) says unsafe raises LeaderElectionInProgress and
\* has no side effect.
C2_RefusedStartHasNoSideEffect ==
    [][(/\ process = NoProcess
        /\ ~IsLeadershipTransferred(IdList(zk_ids), NoIds).verdict
        /\ StartCall) =>
            /\ call'.raised = "LeaderElectionInProgress"
            /\ UNCHANGED <<process, live, props, dumped, wait_timeout, pc>>
            /\ call'.spawns = 0 /\ call'.cfg_writes = 0 /\ call'.dumps = 0]_vars

\* a start was refused and nothing had ever been written or spawned
C2_Witness ==
    /\ call.op = "start" /\ call.raised = "LeaderElectionInProgress"
    /\ process = NoProcess /\ live = {}
    /\ props["zookeeper.connect"] = None /\ props["broker.id"] = "0"
    /\ dumped = [k \in Keys |-> None]
    /\ wait_timeout = InitialWaitTimeout

\* C3: a stop called with no process handle returns without polling the
\* registration record and without sleeping.
C3_StopWithoutHandleNeverPolls ==
    (call.op = "stop" /\ ~call.held) =>
        (pc = "idle" /\ call.polls = 0 /\ call.sleeps = 0)

\* C4: when stop has returned the handle is empty and nothing was raised,
\* also when terminate()/wait() raised and when the absence wait raised.
C4_StopClearsHandleAndNeverRaises ==
    (call.op = "stop" /\ pc = "idle") =>
        (process = NoProcess /\ call.raised = None)

\* a stop returned after both the termination and the absence wait had failed
C4_Witness ==
    /\ call.op = "stop" /\ pc = "idle"
    /\ call.path = "terminate_failed+absence_failed"
    /\ live # {}

C6_TimeoutKeepsProcessAndExtendsTimeout ==
    [][(PresencePoll /\ call'.raised = None) =>
            /\ (~IsRegistered /\ elapsed > wait_timeout) =>
                    /\ pc' = "idle"
                    /\ process' = process /\ process # NoProcess
                    /\ live' = live
                    /\ wait_timeout' = wait_timeout + 60
            /\ IsRegistered =>
                    /\ pc' = "idle"
                    /\ wait_timeout' = wait_timeout
                    /\ process' = process /\ process # NoProcess]_vars

\* a second start timed out with its process still alive and the handle held
C6_Witness ==
    /\ call.op = "start" /\ call.path = "timeout" /\ pc = "idle"
    /\ process \in live
    /\ wait_timeout = InitialWaitTimeout + 2 * WaitTimeoutIncrement

-----------------------------------------------------------------------------
(* Claims about has_leadership and the leadership safety check *)

\* the partition state records of a topic tree
StatesOf(topics) ==
    UNION {{topics[t].partitions[p].state : p \in DOMAIN topics[t].partitions} :
              t \in DOMAIN topics}

\* the orders in which a listing may come back
Reorder(seq) == {[i \in DOMAIN seq |-> seq[f[i]]] : f \in Permutations(DOMAIN seq)}

\* the topic trees that differ from this one in listing order only
PartitionOrders(topic) ==
    {[topic EXCEPT !.partitions = ps] : ps \in Reorder(topic.partitions)}
Reorderings(topics) ==
    UNION {{tree \in [DOMAIN o -> UNION {PartitionOrders(o[i]) : i \in DOMAIN o}] :
                \A i \in DOMAIN o : tree[i] \in PartitionOrders(o[i])} :
           o \in Reorder(topics)}

ClusterArgs == {NoIds} \cup {IdList(ids) : ids \in SUBSET ClusterIds}

C10_Unsafe(st, active, dead) ==
    \/ /\ active.given
       /\ ToString(st.leader) \notin active.ids
       /\ \E x \in st.isr : ToString(x) \in active.ids
    \/ /\ dead.given
       /\ ToString(st.leader) \in dead.ids

\* C10: with clean election the check says unsafe exactly when some partition
\* has (active ids given, leader not active, some in-sync replica active) or
\* (dead ids given, leader dead); a partition with inactive leader and no
\* active in-sync replica is skipped; every listing order gives the verdict.
C10_VerdictIsDisjunctionOverPartitions ==
    (call.op = "check" /\ props["unclean.leader.election.enable"] = "false") =>
        /\ (call.ret = "False") <=>
              \E st \in StatesOf(zk_topics) : C10_Unsafe(st, call.active, call.dead)
        /\ \A tree \in Reorderings(zk_topics) :
              IsLeadershipTransferredIn(tree, call.active, call.dead).verdict
                  = (call.ret = "True")

\* T1/0 led by an active broker, T1/1 led by an inactive broker whose only
\* in-sync replica is itself, two brokers active: the verdict is safe
C10_Witness ==
    /\ call.op = "check" /\ call.ret = "True" /\ call.reads = 2
    /\ props["unclean.leader.election.enable"] = "false"
    /\ Len(zk_topics) = 1
    /\ zk_topics[1].partitions[1].state =
          [leader |-> AddressHashNumber(OwnIp),
           isr |-> {AddressHashNumber(OwnIp), AddressHashNumber(PeerIp)}]
    /\ zk_topics[1].partitions[2].state =
          [leader |-> SelfAssignedId, isr |-> {SelfAssignedId}]
    /\ call.active = IdList({ToString(AddressHashNumber(OwnIp)),
                             ToString(AddressHashNumber(PeerIp))})
    /\ call.dead = NoIds

-----------------------------------------------------------------------------
(* Claims about the address-derived resolver *)

\* the three private blocks, written out from their prefixes
C11_Block(ip) ==
    IF ip[1] = 10 THEN "10/8"
    ELSE IF ip[1] = 172 /\ ip[2] \in 16..31 THEN "172.16/12"
    ELSE IF ip[1] = 192 /\ ip[2] = 168 THEN "192.168/16"
    ELSE "other"

C11_Private(ip) == C11_Block(ip) # "other"

\* ((d*256 + o2)*256 + o3)*256 + o4 with d = 1, 3, 2 for 10/8, 172.16/12, 192.168/16
C11_Identity(ip) ==
    LET d == CASE C11_Block(ip) = "10/8" -> 1
               [] C11_Block(ip) = "172.16/12" -> 3
               [] C11_Block(ip) = "192.168/16" -> 2
    IN  ((d * 256 + ip[2]) * 256 + ip[3]) * 256 + ip[4]

\* C11: a resolver constructed for a private address has the identity
\* ((d*256 + o2)*256 + o3)*256 + o4 with d = 1, 3, 2 for 10/8, 172.16/12,
\* 192.168/16; deriving again gives the same identity, and no other private
\* address, of the same block or of another one, derives the same identity.
C11_IdentityIsInjectiveOverPrivateAddresses ==
    (call.op = "resolver" /\ C11_Private(call.ip)) =>
        /\ call.raised = None
        /\ broker_id = ToString(C11_Identity(call.ip))
        /\ broker_id = CreateRfc1918AddressHash(call.ip)[1]
        /\ \A other \in IpAddresses :
              (C11_Private(other) /\ other # call.ip) =>
                  CreateRfc1918AddressHash(other)[1] # broker_id

\* a resolver was constructed for the last address of 172.16/12, whose second
\* octet is also a second octet of 10/8
C11_Witness ==
    /\ call.op = "resolver"
    /\ call.ip = <<172, 31, 255, 255>>
    /\ broker_id = ToString(C11_Identity(call.ip))
    /\ C11_Private(<<10, 31, 255, 255>>)

\* C12: every identity derived from a private address is at most the reserved
\* max id 3 * 256^3 + 1 that the construction writes under reserved.broker.max.id.
C12_DerivedIdentityWithinReservedMax ==
    (call.op = "resolver" /\ C11_Private(call.ip)) =>
        /\ props["reserved.broker.max.id"] = ToString(3 * 256 * 256 * 256 + 1)
        /\ broker_id = ToString(AddressHashNumber(call.ip))
        /\ AddressHashNumber(call.ip) <= 3 * 256 * 256 * 256 + 1

\* C13: constructing the resolver for an address outside the three private
\* blocks ends with an error and leaves every configuration property as it was,
\* reserved.broker.max.id included.
C13_UnsupportedAddressFailsWithoutMutation ==
    [][(BrokerIDByIpInit /\ ~C11_Private(call.ip)) =>
          /\ call'.raised # None
          /\ call'.cfg_writes = 0
          /\ UNCHANGED props]_vars

\* the construction for 172.32.0.1, just outside 172.16/12, has failed
C13_Witness ==
    /\ call.op = "resolver"
    /\ call.ip = <<172, 32, 0, 1>>
    /\ call.raised # None
    /\ props["reserved.broker.max.id"] = None

-----------------------------------------------------------------------------
(* Claims about the presence wait *)

\* C14: in wait_for_broker_id_presence(timeout) a poll that observes the
\* identity registered ends the wait with True, whatever the timeout and the
\* time elapsed (so also the first poll with timeout 0); the wait goes on to
\* another poll only after a poll that observed it unregistered and at least one
\* second later; it ends with False only at a poll that observed it unregistered
\* with more than timeout seconds elapsed; and while the wait runs it has slept
\* at most timeout + 1 times, that is polled at most timeout + 2 times.
C14_PresenceWaitPollsUntilRegisteredOrTimeout ==
    /\ [][PresencePoll =>
            /\ (IsRegistered /\ call'.raised = None) =>
                   (pc' = "idle" /\ call'.path = "registered")
            /\ call'.path = "registered" => IsRegistered
            /\ pc' = "start_sleep" => (~IsRegistered /\ elapsed <= wait_timeout)
            /\ call'.path = "timeout" =>
                   /\ ~IsRegistered
                   /\ elapsed > wait_timeout
                   /\ call.sleeps + 1 <= wait_timeout + 2]_vars
    /\ [][PresenceSleepSeconds => elapsed' >= elapsed + 1]_vars
    /\ [](pc \in {"start_wait", "start_sleep"} => call.sleeps <= wait_timeout + 1)

\* a wait with timeout 2 has ended with False at its fourth poll (the start
\* that called it has extended the timeout to 62)
C14_Witness ==
    /\ call.op = "start"
    /\ call.path = "timeout"
    /\ call.sleeps = 3
    /\ wait_timeout = 2 + WaitTimeoutIncrement

\* a wait with timeout 0 has ended with True at its first poll
C14_WitnessRegisteredAtOnce ==
    /\ call.op = "start"
    /\ call.path = "registered"
    /\ call.sleeps = 0
    /\ wait_timeout = 0

-----------------------------------------------------------------------------
(* Claims about the states the controller is left in *)

\* C15 as stated: a start that returned without raising left the handle held
\* and the identity registered, and a stop that returned left no handle and
\* the identity unregistered.
C15_ReturnedCallReachedItsState ==
    /\ (pc = "idle" /\ call.op = "start" /\ call.raised = None) =>
           (process # NoProcess /\ IsRegistered)
    /\ (pc = "idle" /\ call.op = "stop") =>
           (process = NoProcess /\ ~IsRegistered)

\* the absence wait of the stop that returned ended by a lookup error
C15_AbsenceFailed ==
    call.path \in {"terminated+absence_failed", "terminate_failed+absence_failed",
                   "no_handle+absence_failed"}

\* C15 (amended): a start that returned without raising left the handle held,
\* and the identity registered unless the handle was already held at the call
\* or the presence wait timed out (then it was unregistered at the last poll);
\* a stop that returned left no handle, and the identity unregistered unless
\* the lookup of its absence wait failed.
C15_ReturnedCallReachedItsStateUnlessTimeoutOrLookupError ==
    /\ (pc = "idle" /\ call.op = "start" /\ call.raised = None) =>
           /\ process # NoProcess
           /\ call.path \in {"held", "registered", "timeout"}
           /\ call.path = "registered" => IsRegistered
           /\ call.path = "timeout" => ~IsRegistered
    /\ (pc = "idle" /\ call.op = "stop") =>
           /\ process = NoProcess
           /\ call.raised = None
           /\ ~C15_AbsenceFailed => ~IsRegistered

\* a start has returned without raising after its presence wait timed out:
\* the handle is held and the identity is not registered
C15_Witness ==
    /\ pc = "idle"
    /\ call.op = "start"
    /\ call.raised = None
    /\ call.path = "timeout"
    /\ process # NoProcess
    /\ ~IsRegistered

\* C16 as stated: the processes spawned by the controller that have not exited
\* are at most one, and a start spawns only when no handle is held.
C16_AtMostOneLiveProcess ==
    /\ Cardinality(live) <= 1
    /\ (call.op = "start" /\ call.spawns = 1) => ~call.held

\* C16 (amended): a process is spawned only by a start that finds no handle
\* held, and it becomes the process of the handle; the live processes that are
\* not the process of the handle become more only in a stop whose terminate()
\* or wait() raised, which clears the handle and leaves the process running.
C16_ProcessesLeakOnlyByFailedTermination ==
    /\ [][~(live' \subseteq live) =>
            /\ StartCall
            /\ process = NoProcess
            /\ process' \notin live
            /\ live' = live \cup {process'}]_vars
    /\ [][Cardinality(live' \ {process'}) > Cardinality(live \ {process}) =>
            /\ StopKafkaProcess
            /\ call'.path = "terminate_failed"
            /\ process' = NoProcess]_vars

\* a second process has been spawned while the one left by a failed
\* termination still runs
C16_Witness ==
    /\ Cardinality(live) = 2
    /\ process \in live
    /\ call.op = "start"
    /\ call.spawns = 1

\* C17: a start that spawns a process found no handle and a safe verdict of the
\* leadership check; the settings file as persisted when the process is spawned
\* has zookeeper.connect equal to the given address, broker.id equal to the
\* derived identity (address-derived resolver) or absent (delegated resolver),
\* every other key as it was, and is what the controller holds in memory; the
\* presence wait begins after the spawn, with no poll made yet.
C17_SpawnFollowsPersistedConfiguration ==
    [][\A a \in Addresses :
          (StartKafkaProcess(a) /\ live' # live) =>
              /\ process = NoProcess
              /\ IsLeadershipTransferred(IdList(zk_ids), NoIds).verdict
              /\ dumped'["zookeeper.connect"] = a
              /\ dumped'["broker.id"] = (IF policy = "ip" THEN broker_id ELSE None)
              /\ \A k \in Keys \ {"zookeeper.connect", "broker.id"} :
                    dumped'[k] = props[k]
              /\ props' = dumped'
              /\ process' \in live'
              /\ pc' = "start_wait"
              /\ elapsed' = 0
              /\ call'.polls = 0]_vars

\* a start with the delegated resolver has spawned the process: the persisted
\* settings have no broker.id (the template had "0") and the given address
C17_Witness ==
    /\ pc = "start_wait"
    /\ call.path = "spawned"
    /\ policy = "auto"
    /\ process \in live
    /\ dumped["broker.id"] = None
    /\ dumped["zookeeper.connect"] = "zk-b:2181"

-----------------------------------------------------------------------------
(* Claims about the registration lookup *)

\* C18: is_registered gives False when the lookup finds no node and never lets
\* NoNodeError out; it gives True when the record exists; any other lookup
\* error comes out of is_registered (is_running_and_registered raises it), out
\* of the presence wait (start raises it) and out of the absence wait (where
\* stop logs it).  With the delegated resolver and no broker.id in
\* meta.properties it is False without a lookup, so without any error;
\* otherwise it is the existence of the record of the discovered identity.
C18_NoNodeIsFalseOtherErrorsSurface ==
    /\ IsRegisteredOutcomes \subseteq {"True", "False", "ZkError"}
    /\ (policy = "auto" /\ meta_id = None) => IsRegisteredOutcomes = {"False"}
    /\ (policy = "auto" /\ meta_id # None) =>
           IsRegisteredOutcomes = {IF meta_id \in zk_ids THEN "True" ELSE "False", "ZkError"}
    /\ policy = "ip" =>
           IsRegisteredOutcomes = {IF broker_id \in zk_ids THEN "True" ELSE "False", "ZkError"}
    /\ (call.op = "is_running" /\ call.held) =>
           IF call.raised = None
           THEN call.ret = (IF LookupId \in zk_ids THEN "True" ELSE "False")
           ELSE call.raised = "ZkError" /\ ~(policy = "auto" /\ meta_id = None)
    /\ (pc = "idle" /\ call.op = "start" /\ call.raised = "ZkError") =>
           (call.path = "lookup_failed" /\ ~(policy = "auto" /\ meta_id = None))
    /\ (pc = "idle" /\ call.op = "stop" /\ C15_AbsenceFailed) =>
           ~(policy = "auto" /\ meta_id = None)

\* is_running_and_registered has returned False with the handle held because
\* the lookup of the derived identity found no node
C18_Witness ==
    /\ call.op = "is_running"
    /\ call.held
    /\ call.raised = None
    /\ call.ret = "False"
    /\ policy = "ip"
    /\ broker_id \notin zk_ids

-----------------------------------------------------------------------------
(* Claims about what the calls leave alone *)

\* C19: wait_timeout is 300 at construction; the step in which a presence wait
\* ends by timing out (the start returns without raising with the identity
\* unregistered) adds 60 to it, and no other step of any call or of the
\* environment changes it; so it is always 300 + 60*k for the number k of
\* timed-out starts, and never decreases.
C19_WaitTimeoutCountsTimedOutStarts ==
    /\ wait_timeout = 300
    /\ [][IF PresencePoll /\ pc' = "idle" /\ call'.raised = None /\ ~IsRegistered
          THEN wait_timeout' = wait_timeout + 60
          ELSE wait_timeout' = wait_timeout]_vars
    /\ [](wait_timeout >= 300 /\ (wait_timeout - 300) % 60 = 0)

\* after two timed-out starts a stop has returned and has left wait_timeout at 420
C19_Witness ==
    /\ pc = "idle"
    /\ call.op = "stop"
    /\ process = NoProcess
    /\ wait_timeout = 300 + 60 * 2

\* C20: a held handle is changed only by stop, which clears it; with the handle
\* held a start changes nothing but the record of the call (no respawn), also
\* after a start that raised a lookup error or timed out and after the process
\* exited; has_leadership and is_running_and_registered change neither the
\* handle nor the configuration; and is_running_and_registered, when it
\* returns, returns (handle held and identity registered).
C20_OnlyStopClearsTheHandle ==
    /\ [][(process # NoProcess /\ process' # process) =>
              (StopKafkaProcess /\ process' = NoProcess)]_vars
    /\ [][(process # NoProcess /\ StartCall) =>
              UNCHANGED <<process, live, props, dumped, wait_timeout, pc, elapsed>>]_vars
    /\ [][(HasLeadership \/ IsRunningAndRegistered) =>
              UNCHANGED <<process, live, props, dumped, wait_timeout>>]_vars
    /\ [][(IsRunningAndRegistered /\ call'.raised = None) =>
              call'.ret = (IF process # NoProcess /\ IsRegistered THEN "True"
                           ELSE "False")]_vars

\* is_running_and_registered has returned True for a handle whose process has
\* exited on its own while its registration record is still there
C20_Witness ==
    /\ call.op = "is_running"
    /\ call.ret = "True"
    /\ process # NoProcess
    /\ process \notin live

====
